---- MODULE Spec2Model ----
(***************************************************************************)
(* Model of the HUNTER X-Core bus encoder (src/hunter_ctrl.cpp): the bit   *)
(* frame builder HunterBitfield, the pulse encoder HunterLow/HunterHigh,   *)
(* the bus transmitter HunterWrite, the command encoders HunterStart,      *)
(* HunterStop and HunterProgram, and the facade HUNTER_CTRL.               *)
(*                                                                         *)
(* Every effect the code has on a pin or on the display is appended to     *)
(* the variable out in program order, so that the order of the effects of  *)
(* one call can be read off the state after the call.                      *)
(***************************************************************************)
EXTENDS Integers, Sequences, FiniteSets, TLC

VARIABLES
  usePump,    \* the build option USE_PUMP (hunter_ctrl.h:18)
  oled,       \* TRUE when the facade holds a display (this->oled is not null)
  pc,         \* "new" after construction, "ready" after initialize, "done" after the call
  call,       \* the call that was made: [op, zone, time, num]
  out,        \* pin and display effects of the call, in program order
  written,    \* the HunterWrite calls made: <<buffer, extrabit>> each
  report,     \* the validation messages printed ("invalid zone", ...)
  fields,     \* the HunterBitfield calls made: <<pos, val, len>> each
  bf,         \* a HunterBitfield call on its own: [bits, pos, val, len, result]
  inv,        \* the number of calls made so far, the number of the running call
  owner,      \* the call whose transmission is in flight on the line, 0 if none
  frame,      \* the buffer of the running call, under construction
  txAt,       \* the part of HunterWrite that comes next
  mq,         \* a call of MQTT::reconnect: its locals, the client and its effects
  ee,         \* APP_DATA: the settings, their mark and the EEPROM
  hunterPin,  \* level of HUNTER_PIN
  pumpPin,    \* level of PUMP_PIN (GPIO5)
  outputs     \* the pins configured as OUTPUT

vars == <<usePump, oled, pc, call, out, written, report, fields, bf, inv, owner, frame, txAt,
          mq, ee, hunterPin, pumpPin, outputs>>

----------------------------------------------------------------------------
(* Bounds of the model *)

\* the facade's int arguments are drawn from -MaxInt..MaxInt
MaxInt == 260

IntArgs == (0 - MaxInt)..MaxInt

\* HunterBitfield on its own is called on vectors of 1..MaxBufLen bytes, each
\* byte 0xa5 or 0x5a, with a width of 0..MaxFieldLen bits
MaxBufLen == 2
MaxFieldLen == 8

Buffers == UNION {[1..n -> {165, 90}] : n \in 1..MaxBufLen}

\* step by step the caller makes up to MaxCmds calls, with arguments at the
\* limits of the ranges and int arguments that do not fit a byte
MaxCmds == 2

ZoneInts == {0 - 1, 1, 49, 257}
TimeInts == {0, 30, 241, 256}
ProgramInts == {0, 1, 4, 5, 257}

\* APP_DATA: the settings take the values 1..MaxSetting (0 is the erased
\* EEPROM), and storeEEProm is called up to MaxStores times
MaxSetting == 3
MaxStores == 4

Settings == 1..MaxSetting

\* startZone is called with every int of IntArgs as zone at these times, and
\* with every int of IntArgs as time at these zones
TimeEdge == {0, 1, 30, 240, 241}
ZoneEdge == {0, 1, 12, 13, 48, 49}

ZoneCalls == (IntArgs \X TimeEdge) \cup (ZoneEdge \X IntArgs)

----------------------------------------------------------------------------
(* Program constants *)

HUNTER_ONE == "HIGH"
HUNTER_ZERO == "LOW"
START_INTERVAL == 900
SHORT_INTERVAL == 208
LONG_INTERVAL == 1875
RESET_HIGH_MS == 325
RESET_LOW_MS == 65
PUMP_PIN_DEFAULT == FALSE

\* the Arduino type byte: an unsigned 8-bit integer
Byte == 0..(2^8 - 1)

\* conversion of an int to byte, as the casts (byte)zone, (byte)time and the
\* implicit conversions of byte parameters do it
ToByte(x) == x % (2^8)

\* the base frame of a zone command left zero-initialised
ZoneTemplateZeroed == <<0, 0, 0, 0, 0, 0, 0, 0, 0, 0, 0, 0, 0, 0, 0>>

ZoneTemplate == <<255, 0, 0, 0, 16, 0, 0, 4, 0, 0, 1, 0, 1, 184, 63>>
ProgramTemplate == <<255, 64, 3, 150, 9, 189, 127>>

----------------------------------------------------------------------------
(* Bit Frame Builder *)

\* the mask 0x80 >> (pos % 8)
\* Mask with the offset counted from the least significant bit of the byte
MaskFromLsb(pos) == 2^(pos % 8)

\* 0x80 >> (pos % 8)
Mask(pos) == 2^(7 - (pos % 8))

\* b & m # 0 for a one-bit mask m
HasBit(b, m) == (b \div m) % 2 = 1

\* b | m and b & ~m for a one-bit mask m
OrMask(b, m) == IF HasBit(b, m) THEN b ELSE b + m
AndNotMask(b, m) == IF HasBit(b, m) THEN b - m ELSE b

\* BitfieldStep with the mask assigned to the byte in place of or-ed into it
BitfieldStepAssign(bits, pos, val) ==
  LET i == (pos \div 8) + 1
  IN IF val % 2 = 1
     THEN [bits EXCEPT ![i] = Mask(pos)]
     ELSE [bits EXCEPT ![i] = AndNotMask(bits[i], Mask(pos))]

\* one iteration of the loop body on the buffer: bits[pos / 8] is element
\* (pos \div 8) + 1 of the sequence
BitfieldStep(bits, pos, val) ==
  LET i == (pos \div 8) + 1
  IN IF val % 2 = 1
     THEN [bits EXCEPT ![i] = OrMask(bits[i], Mask(pos))]
     ELSE [bits EXCEPT ![i] = AndNotMask(bits[i], Mask(pos))]

\* bits[pos / 8] is an element of the vector
InBuffer(bits, pos) == pos \div 8 < Len(bits)

\* the loop: len--, val = val >> 1, pos++ (a byte). A write past the end of
\* the vector is undefined in the code; here it is left out, and the callers'
\* offsets are checked to stay inside the frame
RECURSIVE HunterBitfield(_, _, _, _)
HunterBitfield(bits, pos, val, len) ==
  IF len > 0
  THEN IF InBuffer(bits, pos)
       THEN HunterBitfield(BitfieldStep(bits, pos, val), ToByte(pos + 1), val \div 2, len - 1)
       ELSE HunterBitfield(bits, ToByte(pos + 1), val \div 2, len - 1)
  ELSE bits

----------------------------------------------------------------------------
(* Pulse Encoder and Bus Transmitter: each returns the line events it      *)
(* drives, a line event being <<"pin", level, microseconds>>               *)

Drive(level, us) == <<"pin", level, us>>

HunterLow == <<Drive(HUNTER_ONE, SHORT_INTERVAL), Drive(HUNTER_ZERO, LONG_INTERVAL)>>

HunterHigh == <<Drive(HUNTER_ONE, LONG_INTERVAL), Drive(HUNTER_ZERO, SHORT_INTERVAL)>>

\* SendByte sending the low order bits first: test 0x01, shift right
RECURSIVE SendByteLsbFirst(_, _)
SendByteLsbFirst(sendByte, inner) ==
  IF inner < 8
  THEN (IF HasBit(sendByte, 1) THEN HunterHigh ELSE HunterLow)
       \o SendByteLsbFirst(sendByte \div 2, inner + 1)
  ELSE <<>>

\* the inner loop of HunterWrite on one byte: test 0x80, shift left
RECURSIVE SendByte(_, _)
SendByte(sendByte, inner) ==
  IF inner < 8
  THEN (IF HasBit(sendByte, 128) THEN HunterHigh ELSE HunterLow)
       \o SendByte(ToByte(sendByte * 2), inner + 1)
  ELSE <<>>

RECURSIVE SendBuffer(_, _)
SendBuffer(buffer, i) ==
  IF i <= Len(buffer)
  THEN SendByte(buffer[i], 0) \o SendBuffer(buffer, i + 1)
  ELSE <<>>

ResetImpulse == <<Drive(HUNTER_ONE, RESET_HIGH_MS * 1000), Drive(HUNTER_ZERO, RESET_LOW_MS * 1000)>>

StartImpulse == <<Drive(HUNTER_ONE, START_INTERVAL), Drive(HUNTER_ZERO, SHORT_INTERVAL)>>

\* ExtraBit with the extra bit never sent
ExtraBitNever(extrabit) == <<>>

ExtraBit(extrabit) == IF extrabit THEN HunterHigh ELSE <<>>

StopPulse == HunterLow

\* HunterWrite with the start impulse sent before the reset impulse
HunterWriteStartFirst(buffer, extrabit) ==
  StartImpulse \o ResetImpulse \o SendBuffer(buffer, 1) \o ExtraBit(extrabit) \o StopPulse

HunterWrite(buffer, extrabit) ==
  ResetImpulse \o StartImpulse \o SendBuffer(buffer, 1) \o ExtraBit(extrabit) \o StopPulse

----------------------------------------------------------------------------
(* Command Encoders: each returns [written, out, report], the HunterWrite  *)
(* calls it makes, the line events driven and the messages printed         *)

Rejected(msg) == [written |-> <<>>, out |-> <<>>, report |-> <<msg>>, fields |-> <<>>]

Transmit(buffer, extrabit) ==
  [written |-> << <<buffer, extrabit>> >>, out |-> HunterWrite(buffer, extrabit),
   report |-> <<>>, fields |-> <<>>]

\* ZoneValid with the upper limit off by one
ZoneValidTo49(zone) == ~(zone < 1 \/ zone > 49)

ZoneValid(zone) == ~(zone < 1 \/ zone > 48)

\* TimeValid with the upper limit off by one
TimeValidTo241(time) == ~(time < 0 \/ time > 241)

TimeValid(time) == ~(time < 0 \/ time > 240)

\* ZoneGroup with the limit off by one
ZoneGroupFrom12(zone) == IF zone >= 12 THEN 1 ELSE 2

\* bits 9:10 are 0x1 for zones > 12 and 0x2 otherwise
ZoneGroup(zone) == IF zone > 12 THEN 1 ELSE 2

ZoneGroupField(b, zone) == HunterBitfield(b, 9, ZoneGroup(zone), 2)

\* ZoneCodeFields with the second copy of zone + 0x23 one bit late
ZoneCodeFieldsShifted(b, zone) ==
  LET b1 == HunterBitfield(b, 23, ToByte(zone + 23), 7)
      b2 == HunterBitfield(b1, 36, ToByte(zone + 23), 7)
      b3 == HunterBitfield(b2, 49, ToByte(zone + 35), 7)
      b4 == HunterBitfield(b3, 63, ToByte(zone + 35), 7)
      b5 == HunterBitfield(b4, 75, ToByte(zone + 47), 7)
  IN HunterBitfield(b5, 88, ToByte(zone + 47), 7)

\* zone + 0x17 at 23 and 36, zone + 0x23 at 49 and 62, zone + 0x2f at 75 and 88;
\* the int sum is converted to the byte parameter val
ZoneCodeFields(b, zone) ==
  LET b1 == HunterBitfield(b, 23, ToByte(zone + 23), 7)
      b2 == HunterBitfield(b1, 36, ToByte(zone + 23), 7)
      b3 == HunterBitfield(b2, 49, ToByte(zone + 35), 7)
      b4 == HunterBitfield(b3, 62, ToByte(zone + 35), 7)
      b5 == HunterBitfield(b4, 75, ToByte(zone + 47), 7)
  IN HunterBitfield(b5, 88, ToByte(zone + 47), 7)

\* TimeFields with the shift of the high nibble forgotten
TimeFieldsNoShift(b, time) ==
  LET b1 == HunterBitfield(b, 31, time, 4)
      b2 == HunterBitfield(b1, 44, time, 4)
      b3 == HunterBitfield(b2, 57, time, 4)
      b4 == HunterBitfield(b3, 70, time, 4)
      b5 == HunterBitfield(b4, 83, time, 4)
  IN HunterBitfield(b5, 96, time, 4)

\* TimeFields with the third copy of the low nibble one bit late
TimeFieldsThirdLate(b, time) ==
  LET b1 == HunterBitfield(b, 31, time, 4)
      b2 == HunterBitfield(b1, 44, time \div 16, 4)
      b3 == HunterBitfield(b2, 57, time, 4)
      b4 == HunterBitfield(b3, 70, time \div 16, 4)
      b5 == HunterBitfield(b4, 84, time, 4)
  IN HunterBitfield(b5, 96, time \div 16, 4)

\* time at 31, 57 and 83, time >> 4 at 44, 70 and 96, four bits each
TimeFields(b, time) ==
  LET b1 == HunterBitfield(b, 31, time, 4)
      b2 == HunterBitfield(b1, 44, time \div 16, 4)
      b3 == HunterBitfield(b2, 57, time, 4)
      b4 == HunterBitfield(b3, 70, time \div 16, 4)
      b5 == HunterBitfield(b4, 83, time, 4)
  IN HunterBitfield(b5, 96, time \div 16, 4)

\* ZoneIndexField with zone written in place of zone - 1
ZoneIndexFieldNoOffset(b, zone) == HunterBitfield(b, 109, ToByte(zone), 4)

\* the bottom nibble of zone - 1 at 109
ZoneIndexField(b, zone) == HunterBitfield(b, 109, ToByte(zone - 1), 4)

\* the arguments <<pos, val, len>> of the HunterBitfield calls of HunterStart,
\* in the order of the code
ZoneGroupWrites(zone) == << <<9, ZoneGroup(zone), 2>> >>

ZoneCodeWrites(zone) ==
  << <<23, ToByte(zone + 23), 7>>, <<36, ToByte(zone + 23), 7>>,
     <<49, ToByte(zone + 35), 7>>, <<62, ToByte(zone + 35), 7>>,
     <<75, ToByte(zone + 47), 7>>, <<88, ToByte(zone + 47), 7>> >>

TimeWrites(time) ==
  << <<31, time, 4>>, <<44, time \div 16, 4>>,
     <<57, time, 4>>, <<70, time \div 16, 4>>,
     <<83, time, 4>>, <<96, time \div 16, 4>> >>

\* ZoneIndexWrites with the offset 119 in place of 109
ZoneIndexWritesAt119(zone) == << <<119, ToByte(zone - 1), 4>> >>

ZoneIndexWrites(zone) == << <<109, ToByte(zone - 1), 4>> >>

ZoneWrites(zone, time) ==
  ZoneGroupWrites(zone) \o ZoneCodeWrites(zone) \o TimeWrites(time) \o ZoneIndexWrites(zone)

\* the buffer after the HunterBitfield calls ws, made in order
RECURSIVE ApplyWrites(_, _)
ApplyWrites(b, ws) ==
  IF Len(b) >= 0 /\ ws # <<>>
  THEN ApplyWrites(HunterBitfield(b, ws[1][1], ws[1][2], ws[1][3]), Tail(ws))
  ELSE b

\* the frame HunterStart builds from the base frame, in the order of the code
ZoneFrame(zone, time) ==
  ZoneIndexField(TimeFields(ZoneCodeFields(ZoneGroupField(ZoneTemplate, zone), zone), time), zone)

HunterStart(zone, time) ==
  IF ~ZoneValid(zone) THEN Rejected("invalid zone")
  ELSE IF ~TimeValid(time) THEN Rejected("invalid time")
  ELSE [Transmit(ZoneFrame(zone, time), TRUE) EXCEPT !.fields = ZoneWrites(zone, time)]

\* HunterStop with a duration that is not 0
HunterStopOneMinute(zone) == HunterStart(zone, 1)

HunterStop(zone) == HunterStart(zone, 0)

\* ProgramValid with the upper limit off by one
ProgramValidTo5(num) == ~(num < 1 \/ num > 5)

ProgramValid(num) == ~(num < 1 \/ num > 4)

\* ProgramFrame with num written in place of num - 1
ProgramFrameNoOffset(num) == HunterBitfield(ProgramTemplate, 31, ToByte(num), 2)

ProgramFrame(num) == HunterBitfield(ProgramTemplate, 31, ToByte(num - 1), 2)

\* the arguments of the HunterBitfield call of HunterProgram
ProgramWrites(num) == << <<31, ToByte(num - 1), 2>> >>

HunterProgram(num) ==
  IF ~ProgramValid(num) THEN Rejected("invalid program")
  ELSE [Transmit(ProgramFrame(num), FALSE) EXCEPT !.fields = ProgramWrites(num)]

----------------------------------------------------------------------------
(* Controller Facade *)

\* SwitchPump with the levels exchanged
SwitchPumpInverted(use, onOff) ==
  IF use THEN << <<"pump", IF onOff THEN "LOW" ELSE "HIGH">> >> ELSE <<>>

\* the effects of switchPump: a write of GPIO5 when the pump is in use
SwitchPump(use, onOff) ==
  IF use THEN << <<"pump", IF onOff THEN "HIGH" ELSE "LOW">> >> ELSE <<>>

\* updateAction(msg) and updateHunterInfo(zone, time, program) on the display
OledUpdate(has, msg, zone, time, program) ==
  IF has
  THEN << <<"oled", "action", msg>>, <<"oled", "info", zone, time, program>> >>
  ELSE <<>>

\* what startZone does before it calls HunterStart((byte)zone, (byte)time)
StartZonePre(use, has, zone, time) ==
  OledUpdate(has, <<"Watering zone", zone, time>>, zone, time, 0)
  \o SwitchPump(use, time # 0)

\* what startProgram does before it calls HunterProgram(programID)
StartProgramPre(has, programID) ==
  OledUpdate(has, <<"Watering prog", programID>>, 0, 0, programID)

\* the level HUNTER_PIN is left at by a sequence of line events
PinAfter(events, level) ==
  IF events = <<>> THEN level ELSE events[Len(events)][2]

\* the level a pin is left at by the writes of the given kind among effects
LastLevel(effects, kind, level) ==
  LET idx == {i \in 1..Len(effects) : effects[i][1] = kind}
  IN IF idx = {} THEN level
     ELSE effects[CHOOSE i \in idx : \A j \in idx : j <= i][2]

----------------------------------------------------------------------------
(* State machine: construction, initialize, then one call *)

NoCall == [op |-> "none", zone |-> 0, time |-> 0, num |-> 0]

NoBitfield == [bits |-> <<>>, pos |-> 0, val |-> 0, len |-> 0, result |-> <<>>]

\* MQTT::reconnect not called, APP_DATA not in use
NoReconnect ==
  [pc |-> "none", appData |-> FALSE, oled |-> FALSE, link |-> FALSE, loopCnt |-> 0,
   attempts |-> 0, log |-> <<>>, ret |-> FALSE]

NoAppData == [dataValid |-> 0, settings |-> 0, flash |-> 0, commit |-> "none", stores |-> 0]

Init ==
  /\ usePump \in BOOLEAN
  /\ oled = FALSE
  /\ pc = "new"
  /\ call = NoCall
  /\ out = <<>>
  /\ written = <<>>
  /\ report = <<>>
  /\ fields = <<>>
  /\ bf = NoBitfield
  /\ inv = 0
  /\ owner = 0
  /\ frame = <<>>
  /\ txAt = 0
  /\ mq = NoReconnect
  /\ ee = NoAppData
  /\ hunterPin = "undriven"
  /\ pumpPin = "undriven"
  /\ outputs = {}

Initialize ==
  /\ pc = "new"
  /\ pc' = "ready"
  /\ \E o \in BOOLEAN : oled' = o
  /\ outputs' = IF usePump THEN {"PUMP_PIN", "HUNTER_PIN"} ELSE outputs
  /\ pumpPin' = IF usePump THEN (IF PUMP_PIN_DEFAULT THEN "HIGH" ELSE "LOW") ELSE pumpPin
  /\ UNCHANGED <<mq, ee, usePump, call, out, written, report, fields, bf, inv, owner, frame, txAt, hunterPin>>

\* the state after a call c with the effects pre of the facade and r of the encoder
Effect(c, pre, r) ==
  /\ pc' = "done"
  /\ call' = c
  /\ out' = pre \o r.out
  /\ written' = r.written
  /\ report' = r.report
  /\ fields' = r.fields
  /\ hunterPin' = PinAfter(r.out, hunterPin)
  /\ pumpPin' = LastLevel(pre, "pump", pumpPin)
  /\ UNCHANGED <<mq, ee, usePump, oled, bf, inv, owner, frame, txAt, outputs>>

CallHunterStart ==
  /\ pc = "ready"
  /\ \E zone \in Byte, time \in Byte :
       \E r \in {HunterStart(zone, time)} :
         Effect([op |-> "HunterStart", zone |-> zone, time |-> time, num |-> 0], <<>>, r)

CallHunterStop ==
  /\ pc = "ready"
  /\ \E zone \in Byte :
       \E r \in {HunterStop(zone)} :
         Effect([op |-> "HunterStop", zone |-> zone, time |-> 0, num |-> 0], <<>>, r)

CallHunterProgram ==
  /\ pc = "ready"
  /\ \E num \in Byte :
       \E r \in {HunterProgram(num)} :
         Effect([op |-> "HunterProgram", zone |-> 0, time |-> 0, num |-> num], <<>>, r)

StartZone ==
  /\ pc = "ready"
  /\ \E a \in ZoneCalls :
       \E r \in {HunterStart(ToByte(a[1]), ToByte(a[2]))} :
         Effect([op |-> "startZone", zone |-> a[1], time |-> a[2], num |-> 0],
                StartZonePre(usePump, oled, a[1], a[2]), r)

StartProgram ==
  /\ pc = "ready"
  /\ \E programID \in IntArgs :
       \E r \in {HunterProgram(ToByte(programID))} :
         Effect([op |-> "startProgram", zone |-> 0, time |-> 0, num |-> programID],
                StartProgramPre(oled, programID), r)

Next ==
  \/ Initialize
  \/ StartProgram
  \/ CallHunterProgram
  \/ CallHunterStop
  \/ StartZone
  \/ CallHunterStart

Spec == Init /\ [][Next]_vars

----------------------------------------------------------------------------
(* HunterBitfield on its own: one call with arguments inside the vector,   *)
(* pos + len <= 8 * bits.size(), the contract of its callers               *)

InitBits == Init /\ usePump = FALSE

CallHunterBitfield ==
  /\ pc = "new"
  /\ pc' = "bitfield"
  /\ \E bits \in Buffers, len \in 0..MaxFieldLen, val \in Byte :
       \E pos \in 0..(8 * Len(bits) - len) :
         bf' = [bits |-> bits, pos |-> pos, val |-> val, len |-> len,
                result |-> HunterBitfield(bits, pos, val, len)]
  /\ UNCHANGED <<mq, ee, usePump, oled, call, out, written, report, fields, inv, owner, frame, txAt,
                 hunterPin, pumpPin, outputs>>

SpecBits == InitBits /\ [][CallHunterBitfield]_vars

----------------------------------------------------------------------------
(* Reading a state: the frame handed to HunterWrite, the line events, and  *)
(* the fields of a frame read back by offset                               *)

ZoneOps == {"HunterStart", "HunterStop", "startZone"}
ProgramOps == {"HunterProgram", "startProgram"}

Transmitted == pc = "done" /\ Len(written) = 1

\* the buffer handed to HunterWrite and the extrabit flag handed with it
Frame == written[1][1]
Trailing == written[1][2]

\* the events driven on the bus line, in order
IsLineEvent(e) == e[1] = "pin"
LineEvents == SelectSeq(out, IsLineEvent)

\* bit k of a frame, offsets counted from the most significant bit of byte 0
BitAt(bits, k) == (bits[(k \div 8) + 1] \div 2^(7 - (k % 8))) % 2

\* the len-bit field at offset pos read with the inverse of HunterBitfield's
\* placement: the bit at offset pos + i has weight 2^i
ReadField(bits, pos, len) ==
  LET w[i \in 0..len] == IF i = len THEN 0 ELSE BitAt(bits, pos + i) + 2 * w[i + 1]
  IN w[0]

----------------------------------------------------------------------------
(* C1: round trip. For every zone in 1..48 and time in 0..240 the frame    *)
(* that HunterStart(zone, time) hands to HunterWrite has 15 bytes and      *)
(* decodes to (zone, time): zone is the 7-bit field at offset 23 minus     *)
(* 0x17, time is the 4-bit field at offset 31 plus 16 times the 4-bit      *)
(* field at offset 44, fields read with the inverse of HunterBitfield.     *)
C1_RoundTrip ==
  (pc = "done" /\ call.op = "HunterStart" /\ call.zone \in 1..48 /\ call.time \in 0..240)
  => /\ Len(written) = 1
     /\ Len(Frame) = 15
     /\ ReadField(Frame, 23, 7) - 23 = call.zone
     /\ ReadField(Frame, 31, 4) + 16 * ReadField(Frame, 44, 4) = call.time

C1_Witness ==
  /\ pc = "done" /\ call.op = "HunterStart" /\ call.zone = 48 /\ call.time = 240
  /\ Len(written) = 1
  /\ ReadField(Frame, 23, 7) = 71
  /\ ReadField(Frame, 44, 4) = 15

(* C2: HunterStart with a byte zone outside 1..48 or a byte time above 240 *)
(* returns without calling HunterWrite: no line event is driven and the    *)
(* bus line keeps the level it had.                                        *)
C2_RejectsOutOfRange ==
  (pc = "done" /\ call.op = "HunterStart" /\ (call.zone \notin 1..48 \/ call.time > 240))
  => /\ written = <<>>
     /\ LineEvents = <<>>
     /\ hunterPin = "undriven"

C2_Witness ==
  /\ pc = "done" /\ call.op = "HunterStart" /\ call.zone = 49 /\ call.time = 241
  /\ written = <<>>
  /\ report = <<"invalid zone">>

(* C3: at the facade, for every int argument, startZone(zone, time) with  *)
(* zone outside 1..48 or time outside 0..240 and startProgram(p) with p    *)
(* outside 1..4 drive no line event and make no HunterWrite call.          *)
C3_FacadeRejects ==
  /\ (pc = "done" /\ call.op = "startZone"
        /\ (call.zone \notin 1..48 \/ call.time \notin 0..240))
     => (written = <<>> /\ LineEvents = <<>>)
  /\ (pc = "done" /\ call.op = "startProgram" /\ call.num \notin 1..4)
     => (written = <<>> /\ LineEvents = <<>>)

(* C4: HunterProgram(num) transmits a frame when num is in 1..4 and drives *)
(* nothing on the line for every other byte value of num.                  *)
C4_ProgramAccepts ==
  (pc = "done" /\ call.op = "HunterProgram")
  => IF call.num \in 1..4
     THEN Len(written) = 1 /\ Len(Frame) = 7 /\ LineEvents # <<>>
     ELSE written = <<>> /\ LineEvents = <<>> /\ hunterPin = "undriven"

C4_Witness ==
  /\ pc = "done" /\ call.op = "HunterProgram" /\ call.num = 4
  /\ Len(written) = 1
  /\ LineEvents # <<>>

\* pulse p (1 is the first pulse after the start impulse) of the line events ev
PulseAt(ev, p) == <<ev[3 + 2 * p], ev[4 + 2 * p]>>
OnePulse == << <<"pin", "HIGH", 1875>>, <<"pin", "LOW", 208>> >>
ZeroPulse == << <<"pin", "HIGH", 208>>, <<"pin", "LOW", 1875>> >>

(* C5: every transmission drives, in this order and nothing else: HIGH for *)
(* 325 ms, LOW for 65 ms, HIGH for 900 us, LOW for 208 us, one pulse for   *)
(* each bit of the frame, a '1' pulse if and only if the extra bit was     *)
(* asked for, and a '0' pulse as the last two events.                      *)
C5_FixedSequence ==
  Transmitted =>
    LET ev == LineEvents
        n == 8 * Len(Frame)
        x == IF Trailing THEN 1 ELSE 0
    IN /\ Len(ev) = 4 + 2 * (n + x + 1)
       /\ ev[1] = <<"pin", "HIGH", 325000>>
       /\ ev[2] = <<"pin", "LOW", 65000>>
       /\ ev[3] = <<"pin", "HIGH", 900>>
       /\ ev[4] = <<"pin", "LOW", 208>>
       /\ \A p \in 1..n : PulseAt(ev, p) \in {OnePulse, ZeroPulse}
       /\ Trailing => PulseAt(ev, n + 1) = OnePulse
       /\ PulseAt(ev, n + x + 1) = ZeroPulse
       /\ <<ev[Len(ev) - 1], ev[Len(ev)]>> = ZeroPulse

C5_Witness ==
  /\ Transmitted /\ call.op = "startZone" /\ oled /\ usePump
  /\ Trailing
  /\ Len(LineEvents) = 248
  /\ Len(out) > Len(LineEvents)

(* C6: the data pulses are the bits of the frame in byte order and, within *)
(* a byte, from bit 7 down to bit 0: data pulse k + 1 is HIGH for 1875 us  *)
(* then LOW for 208 us when bit k of the frame is 1, and HIGH for 208 us   *)
(* then LOW for 1875 us when it is 0.                                      *)
C6_BitStream ==
  Transmitted =>
    LET ev == LineEvents
    IN \A k \in 0..(8 * Len(Frame) - 1) :
         PulseAt(ev, k + 1) = IF BitAt(Frame, k) = 1 THEN OnePulse ELSE ZeroPulse

C6_Witness ==
  /\ Transmitted /\ call.op = "HunterStart" /\ call.zone = 13 /\ call.time = 30
  /\ Frame[2] = 64
  /\ PulseAt(LineEvents, 10) = OnePulse
  /\ PulseAt(LineEvents, 11) = ZeroPulse

\* the number of pulses after the reset and start impulses: the times the
\* line is driven HIGH from the fifth event on
PulseCount(ev) == Cardinality({i \in 5..Len(ev) : ev[i][2] = "HIGH"})

(* C7: after the reset and start impulses every accepted zone command      *)
(* drives 122 pulses and every accepted program command 57.                *)
C7_PulseCounts ==
  Transmitted =>
    /\ call.op \in ZoneOps => PulseCount(LineEvents) = 122 /\ Len(LineEvents) = 248
    /\ call.op \in ProgramOps => PulseCount(LineEvents) = 57 /\ Len(LineEvents) = 118

C7_Witness ==
  /\ Transmitted /\ call.op = "startProgram" /\ call.num = 2
  /\ PulseCount(LineEvents) = 57

(* C8: HunterStop(z) hands HunterWrite the same frame and drives the same  *)
(* sequence of line events as HunterStart(z, 0), for every byte z; both    *)
(* drive nothing when z is outside 1..48.                                  *)
C8_StopIsStartZero ==
  (pc = "done" /\ call.op = "HunterStop")
  => /\ written = HunterStart(call.zone, 0).written
     /\ out = HunterStart(call.zone, 0).out
     /\ call.zone \notin 1..48 => out = <<>>
     /\ call.zone \in 1..48 => Len(written) = 1 /\ Len(out) = 248

C8_Witness ==
  /\ pc = "done" /\ call.op = "HunterStop" /\ call.zone = 5
  /\ Len(written) = 1
  /\ ReadField(Frame, 31, 4) = 0
  /\ ReadField(Frame, 23, 7) = 28

(* C9: in every transmitted zone frame, for all zones 1..48, the 2-bit     *)
(* field at offset 9 (read with the inverse of HunterBitfield's placement) *)
(* holds 1 when zone > 12 and 2 when zone <= 12.                           *)
C9_ZoneGroup ==
  (Transmitted /\ call.op \in ZoneOps /\ call.zone \in 1..48)
  => ReadField(Frame, 9, 2) = IF call.zone > 12 THEN 1 ELSE 2

C9_Witness ==
  /\ Transmitted /\ call.op = "HunterStart" /\ call.zone = 12
  /\ ReadField(Frame, 9, 2) = 2

(* C10: in every transmitted zone frame, for all zones 1..48, the 7-bit    *)
(* fields at offsets 23 and 36 hold zone + 0x17, those at 49 and 62 hold   *)
(* zone + 0x23 and those at 75 and 88 hold zone + 0x2f; each value is      *)
(* below 128 and the two copies are equal.                                 *)
C10_ZoneCodes ==
  (Transmitted /\ call.op \in ZoneOps /\ call.zone \in 1..48)
  => /\ ReadField(Frame, 23, 7) = call.zone + 23
     /\ ReadField(Frame, 36, 7) = call.zone + 23
     /\ ReadField(Frame, 49, 7) = call.zone + 35
     /\ ReadField(Frame, 62, 7) = call.zone + 35
     /\ ReadField(Frame, 75, 7) = call.zone + 47
     /\ ReadField(Frame, 88, 7) = call.zone + 47
     /\ call.zone + 47 < 128

C10_Witness ==
  /\ Transmitted /\ call.op = "HunterStart" /\ call.zone = 48 /\ call.time = 240
  /\ ReadField(Frame, 75, 7) = 95
  /\ ReadField(Frame, 88, 7) = 95

(* C11: in every transmitted zone frame, for all times 0..240, the 4-bit    *)
(* fields at offsets 31, 57 and 83 hold time mod 16 and those at 44, 70    *)
(* and 96 hold time div 16; for time 0 all six fields are 0.               *)
C11_TimeNibbles ==
  (Transmitted /\ call.op \in ZoneOps /\ call.time \in 0..240)
  => /\ \A pos \in {31, 57, 83} : ReadField(Frame, pos, 4) = call.time % 16
     /\ \A pos \in {44, 70, 96} : ReadField(Frame, pos, 4) = call.time \div 16
     /\ call.time = 0 =>
          \A pos \in {31, 57, 83, 44, 70, 96} : ReadField(Frame, pos, 4) = 0

C11_Witness ==
  /\ Transmitted /\ call.op = "HunterStart" /\ call.zone = 13 /\ call.time = 30
  /\ ReadField(Frame, 83, 4) = 14
  /\ ReadField(Frame, 96, 4) = 1

(* C12, as claimed: for every zone in 1..48 the 4-bit field at offset 109  *)
(* of the transmitted zone frame holds zone - 1.                           *)
C12_ZoneIndexIsZoneMinusOne ==
  (Transmitted /\ call.op \in ZoneOps /\ call.zone \in 1..48)
  => ReadField(Frame, 109, 4) = call.zone - 1

(* C12, amended: for every zone in 1..48 the 4-bit field at offset 109     *)
(* holds the bottom nibble of zone - 1, that is (zone - 1) mod 16; it is   *)
(* zone - 1 itself exactly for the zones 1..16.                            *)
C12_ZoneIndexNibble ==
  (Transmitted /\ call.op \in ZoneOps /\ call.zone \in 1..48)
  => /\ ReadField(Frame, 109, 4) = (call.zone - 1) % 16
     /\ (ReadField(Frame, 109, 4) = call.zone - 1) <=> (call.zone <= 16)

C12_Witness ==
  /\ Transmitted /\ call.op = "HunterStart" /\ call.zone = 17
  /\ ReadField(Frame, 109, 4) = 0

\* the bit offsets of a frame of n bytes outside the given spans <<pos, len>>
Outside(n, spans) ==
  {k \in 0..(8 * n - 1) : \A f \in spans : k < f[1] \/ k >= f[1] + f[2]}

(* C13: for every accepted program p in 1..4 the transmitted frame has 7   *)
(* bytes and equals {0xff,0x40,0x03,0x96,0x09,0xbd,0x7f} outside the 2-bit *)
(* field at offset 31, which holds p - 1; it is sent without the trailing  *)
(* '1' pulse, and it differs from the frame of every other program.        *)
C13_ProgramFrame ==
  (Transmitted /\ call.op \in ProgramOps /\ call.num \in 1..4)
  => /\ Len(Frame) = 7
     /\ \A k \in Outside(7, {<<31, 2>>}) :
          BitAt(Frame, k) = BitAt(<<255, 64, 3, 150, 9, 189, 127>>, k)
     /\ ReadField(Frame, 31, 2) = call.num - 1
     /\ Trailing = FALSE
     /\ Len(LineEvents) = 4 + 2 * 57
     /\ \A q \in 1..4 : q # call.num => Frame # HunterProgram(q).written[1][1]

C13_Witness ==
  /\ Transmitted /\ call.op = "HunterProgram" /\ call.num = 4
  /\ Frame = <<255, 64, 3, 151, 137, 189, 127>>

(* C14: HunterBitfield(bits, pos, val, len) with pos + len <= 8 *          *)
(* bits.size() leaves the length of the buffer and every bit outside the   *)
(* offsets pos..pos+len-1 unchanged, and gives the same buffer for val and *)
(* for val mod 2^len.                                                      *)
C14_BitfieldFrame ==
  pc = "bitfield" =>
    /\ Len(bf.result) = Len(bf.bits)
    /\ \A k \in 0..(8 * Len(bf.bits) - 1) :
         (k < bf.pos \/ k >= bf.pos + bf.len) => BitAt(bf.result, k) = BitAt(bf.bits, k)
    /\ bf.result = HunterBitfield(bf.bits, bf.pos, bf.val % (2^bf.len), bf.len)

C14_Witness ==
  /\ pc = "bitfield"
  /\ bf.bits = <<165, 90>> /\ bf.pos = 5 /\ bf.len = 7 /\ bf.val = 255
  /\ bf.result = <<167, 250>>

(* C15: every HunterBitfield call of the zone encoder and of the program   *)
(* encoder has offset + width <= 120, respectively <= 56, the length in    *)
(* bits of the frame it writes, for every accepted input; the calls are    *)
(* the ones that build the transmitted frame from the base frame.          *)
C15_WritesInsideFrame ==
  pc = "done" =>
    /\ \A i \in 1..Len(fields) :
         fields[i][1] + fields[i][3] <= IF call.op \in ZoneOps THEN 120 ELSE 56
    /\ (Transmitted /\ call.op \in ZoneOps)
       => (Len(fields) = 14 /\ Len(Frame) * 8 = 120
           /\ ApplyWrites(ZoneTemplate, fields) = Frame)
    /\ (Transmitted /\ call.op \in ProgramOps)
       => (Len(fields) = 1 /\ Len(Frame) * 8 = 56
           /\ ApplyWrites(ProgramTemplate, fields) = Frame)
    /\ ~Transmitted => fields = <<>>

C15_Witness ==
  /\ Transmitted /\ call.op = "HunterStart" /\ call.zone = 48 /\ call.time = 240
  /\ Len(fields) = 14
  /\ fields[14] = <<109, 47, 4>>
  /\ fields[7] = <<88, 95, 7>>

\* the 14 documented fields of the zone frame
ZoneFieldSpans ==
  {<<9, 2>>, <<23, 7>>, <<36, 7>>, <<49, 7>>, <<62, 7>>, <<75, 7>>, <<88, 7>>,
   <<31, 4>>, <<44, 4>>, <<57, 4>>, <<70, 4>>, <<83, 4>>, <<96, 4>>, <<109, 4>>}

(* C16: in every transmitted zone frame every bit outside the 14           *)
(* documented fields equals the bit of the base frame {0xff,0x00,0x00,     *)
(* 0x00,0x10,0x00,0x00,0x04,0x00,0x00,0x01,0x00,0x01,0xb8,0x3f}, and the   *)
(* frame handed to the transmitter has 15 bytes.                           *)
C16_TemplateBits ==
  (Transmitted /\ call.op \in ZoneOps)
  => /\ Len(Frame) = 15
     /\ \A k \in Outside(15, ZoneFieldSpans) :
          BitAt(Frame, k) = BitAt(<<255, 0, 0, 0, 16, 0, 0, 4, 0, 0, 1, 0, 1, 184, 63>>, k)

C16_Witness ==
  /\ Transmitted /\ call.op = "HunterStart" /\ call.zone = 48 /\ call.time = 239
  /\ Frame[1] = 255
  /\ Frame[15] = 191

\* the positions in out of the effects of a kind
Positions(kind) == {i \in 1..Len(out) : out[i][1] = kind}

(* C18: with the pump in use, startZone(zone, time) writes the pump output *)
(* once, before the first line event of the call, HIGH when time is not 0  *)
(* and LOW when time is 0; with the pump not in use the pump output is     *)
(* never written.                                                          *)
C18_PumpInterlock ==
  /\ (pc = "done" /\ call.op = "startZone" /\ usePump)
     => /\ Cardinality(Positions("pump")) = 1
        /\ \A i \in Positions("pump") :
             /\ out[i][2] = IF call.time # 0 THEN "HIGH" ELSE "LOW"
             /\ \A j \in Positions("pin") : i < j
        /\ pumpPin = IF call.time # 0 THEN "HIGH" ELSE "LOW"
  /\ ~usePump => (Positions("pump") = {} /\ pumpPin = "undriven")

C18_Witness ==
  /\ pc = "done" /\ call.op = "startZone" /\ usePump
  /\ call.zone = 13 /\ call.time = 30
  /\ Transmitted
  /\ pumpPin = "HIGH"

(* C19: startZone and startProgram update the display only after the frame *)
(* has been transmitted: no display update of a call precedes the last     *)
(* line event of the call.                                                 *)
C19_DisplayAfterTransmission ==
  (Transmitted /\ call.op \in {"startZone", "startProgram"})
  => \A i \in Positions("oled") : \A j \in Positions("pin") : j < i


----------------------------------------------------------------------------
(* The calls step by step: validation, the HunterBitfield calls one by     *)
(* one, HunterWrite part by part, for up to MaxCmds calls in a row; out    *)
(* holds the effects of the running (or the last) call                     *)

StepCalls ==
  {[op |-> "HunterStart", zone |-> z, time |-> t, num |-> 0] : z \in ZoneEdge, t \in TimeEdge}
  \cup {[op |-> "HunterStop", zone |-> z, time |-> 0, num |-> 0] : z \in ZoneEdge}
  \cup {[op |-> "HunterProgram", zone |-> 0, time |-> 0, num |-> n] : n \in 0..5}
  \cup {[op |-> "startZone", zone |-> z, time |-> t, num |-> 0] : z \in ZoneInts, t \in TimeInts}
  \cup {[op |-> "startProgram", zone |-> 0, time |-> 0, num |-> n] : n \in ProgramInts}

\* the byte arguments the encoder receives
ArgZone == ToByte(call.zone)
ArgTime == ToByte(call.time)
ArgNum == ToByte(call.num)

ArgsValid ==
  IF call.op \in ZoneOps THEN ZoneValid(ArgZone) /\ TimeValid(ArgTime)
  ELSE ProgramValid(ArgNum)

RejectMsg ==
  IF call.op \in ZoneOps
  THEN (IF ~ZoneValid(ArgZone) THEN "invalid zone" ELSE "invalid time")
  ELSE "invalid program"

\* the HunterBitfield calls of the running call, in program order
StepWrites ==
  IF call.op \in ZoneOps THEN ZoneWrites(ArgZone, ArgTime) ELSE ProgramWrites(ArgNum)

\* what the facade does before it calls the encoder
FacadePre(c) ==
  IF c.op = "startZone" THEN StartZonePre(usePump, oled, c.zone, c.time)
  ELSE IF c.op = "startProgram" THEN StartProgramPre(oled, c.num)
  ELSE <<>>

\* the caller calls from one thread: a call begins when the last has returned
SerialCaller == pc = "ready"

\* NewBuffer with one buffer kept from call to call
NewBufferKept(c, last) ==
  IF last # <<>> THEN last
  ELSE IF c.op \in ZoneOps THEN ZoneTemplate ELSE ProgramTemplate

\* the buffer is a local of the encoder, constructed from the base frame in
\* every call whatever the last call left
NewBuffer(c, last) == IF c.op \in ZoneOps THEN ZoneTemplate ELSE ProgramTemplate

\* a call is made: the facade's part, then the encoder starts on its base frame
Invoke ==
  /\ SerialCaller
  /\ inv < MaxCmds
  /\ \E c \in StepCalls :
       /\ call' = c
       /\ out' = FacadePre(c)
       /\ pumpPin' = LastLevel(FacadePre(c), "pump", pumpPin)
       /\ frame' = NewBuffer(c, frame)
  /\ pc' = "validating"
  /\ inv' = inv + 1
  /\ written' = <<>> /\ report' = <<>> /\ fields' = <<>> /\ txAt' = 0
  /\ UNCHANGED <<mq, ee, usePump, oled, bf, owner, hunterPin, outputs>>

Reject ==
  /\ pc = "validating"
  /\ ~ArgsValid
  /\ report' = <<RejectMsg>>
  /\ pc' = "ready"
  /\ UNCHANGED <<mq, ee, usePump, oled, call, out, written, fields, bf, inv, owner, frame, txAt,
                 hunterPin, pumpPin, outputs>>

Accept ==
  /\ pc = "validating"
  /\ ArgsValid
  /\ pc' = "encoding"
  /\ UNCHANGED <<mq, ee, usePump, oled, call, out, written, report, fields, bf, inv, owner, frame, txAt,
                 hunterPin, pumpPin, outputs>>

WriteField ==
  /\ pc = "encoding"
  /\ Len(fields) < Len(StepWrites)
  /\ LET w == StepWrites[Len(fields) + 1]
     IN /\ fields' = Append(fields, w)
        /\ frame' = HunterBitfield(frame, w[1], w[2], w[3])
  /\ UNCHANGED <<mq, ee, usePump, oled, pc, call, out, written, report, bf, inv, owner, txAt,
                 hunterPin, pumpPin, outputs>>

CallHunterWrite ==
  /\ pc = "encoding"
  /\ Len(fields) = Len(StepWrites)
  /\ pc' = "transmitting"
  /\ written' = << <<frame, call.op \in ZoneOps>> >>
  /\ txAt' = 0
  /\ UNCHANGED <<mq, ee, usePump, oled, call, out, report, fields, bf, inv, owner, frame,
                 hunterPin, pumpPin, outputs>>

\* the parts of HunterWrite: reset, start, the bytes, the extra bit, the stop
TxChunk(buffer, extrabit, at) ==
  IF at = 0 THEN ResetImpulse
  ELSE IF at = 1 THEN StartImpulse
  ELSE IF at <= Len(buffer) + 1 THEN SendByte(buffer[at - 1], 0)
  ELSE IF at = Len(buffer) + 2 THEN ExtraBit(extrabit)
  ELSE StopPulse

\* TxReturns with a return after the start impulse
TxReturnsAfterStart(buffer, at) == at = 2

\* TxReturns with a return before the stop pulse
TxReturnsBeforeStop(buffer, at) == at = Len(buffer) + 3

\* HunterWrite returns when the stop pulse has been written
TxReturns(buffer, at) == at = Len(buffer) + 4

TxStep ==
  /\ pc = "transmitting"
  /\ ~TxReturns(written[1][1], txAt)
  /\ LET buffer == written[1][1]
         events == TxChunk(buffer, written[1][2], txAt)
     IN /\ out' = out \o events
        /\ hunterPin' = PinAfter(events, hunterPin)
        /\ owner' = IF txAt = 0 THEN (IF owner = 0 THEN inv ELSE owner)
                    ELSE IF txAt = Len(buffer) + 3 THEN 0
                    ELSE owner
  /\ txAt' = txAt + 1
  /\ UNCHANGED <<mq, ee, usePump, oled, pc, call, written, report, fields, bf, inv, frame,
                 pumpPin, outputs>>

Return ==
  /\ pc = "transmitting"
  /\ TxReturns(written[1][1], txAt)
  /\ pc' = "ready"
  /\ UNCHANGED <<mq, ee, usePump, oled, call, out, written, report, fields, bf, inv, owner, frame, txAt,
                 hunterPin, pumpPin, outputs>>

NextStep ==
  \/ Initialize
  \/ Invoke
  \/ Reject
  \/ Accept
  \/ WriteField
  \/ CallHunterWrite
  \/ TxStep
  \/ Return

SpecStep == Init /\ [][NextStep]_vars

\* a step that drives the line
DrivesLine == \E i \in (Len(out) + 1)..Len(out') : out'[i][1] = "pin"

\* the arguments of the running call are in the ranges the encoder accepts
ArgsInRange ==
  IF call.op \in ZoneOps
  THEN ToByte(call.zone) \in 1..48 /\ ToByte(call.time) \in 0..240
  ELSE ToByte(call.num) \in 1..4

PhaseOrder ==
  {<<"new", "ready">>, <<"ready", "validating">>, <<"validating", "ready">>,
   <<"validating", "encoding">>, <<"encoding", "encoding">>,
   <<"encoding", "transmitting">>, <<"transmitting", "transmitting">>,
   <<"transmitting", "ready">>}

(* C17: in every call the phases follow the order validating, encoding,    *)
(* transmitting and back to idle: a field is written only in the encoding  *)
(* phase of a call whose arguments are in range, the line is driven only   *)
(* in the transmitting phase when all field writes are done, and a call    *)
(* with an argument out of range returns from validation without a field   *)
(* write or a line event.                                                  *)
C17_PhaseOrder ==
  [][/\ <<pc, pc'>> \in PhaseOrder
     /\ Len(fields') > Len(fields) => (pc = "encoding" /\ pc' = "encoding" /\ ArgsInRange)
     /\ DrivesLine
        => /\ pc = "transmitting"
           /\ Len(fields) = (IF call.op \in ZoneOps THEN 14 ELSE 1)
           /\ fields' = fields /\ written' = written
           /\ written[1][1] = ApplyWrites(IF call.op \in ZoneOps THEN ZoneTemplate
                                                               ELSE ProgramTemplate, fields)
     /\ (pc = "validating" /\ ~ArgsInRange)
        => (pc' = "ready" /\ out' = out /\ fields' = <<>> /\ written' = <<>>)
    ]_vars

C17_Witness ==
  /\ pc = "transmitting" /\ inv = 2 /\ txAt = 9
  /\ call.op = "HunterStart" /\ call.zone = 13 /\ call.time = 30
  /\ Len(fields) = 14 /\ Len(out) = 2 + 2 + 7 * 16

----------------------------------------------------------------------------
(* HunterWrite is straight-line code with fixed delays on a processor that *)
(* keeps running: a transmission that can take its next part, or return,   *)
(* does so                                                                 *)

SpecStepFair == SpecStep /\ WF_vars(TxStep) /\ WF_vars(Return)

(* C21: a transmission that has driven its first reset edge drives its     *)
(* stop pulse and returns, for zone frames (with the extra bit) and for    *)
(* program frames (without): while it is in flight no step leaves          *)
(* HunterWrite, and it leads to the call having returned with the stop     *)
(* pulse written.                                                          *)
C21_RunToCompletion ==
  /\ [][owner # 0 => (pc = "transmitting" /\ pc' = "transmitting")]_vars
  /\ (owner # 0) ~> (IF owner = 0 /\ pc = "ready" /\ Len(written) = 1
                     THEN txAt = Len(written[1][1]) + 4
                     ELSE FALSE)

C21_Witness ==
  /\ pc = "ready" /\ owner = 0 /\ inv = 2
  /\ call.op = "HunterProgram" /\ call.num = 4
  /\ Len(written) = 1 /\ written[1][2] = FALSE
  /\ txAt = 7 + 4
  /\ Len(out) = 2 + 2 + 7 * 16 + 2


(* C22: whenever no transmission is in progress, before the first command, *)
(* after a completed transmission and after a rejected command, the bus    *)
(* line is LOW.                                                            *)
C22_RestLow ==
  (pc # "new" /\ owner = 0) => hunterPin = "LOW"

\* the result of the encoder called on its own with the arguments of the call
EncoderAlone ==
  IF call.op \in ZoneOps THEN HunterStart(ArgZone, ArgTime) ELSE HunterProgram(ArgNum)

(* C23: the line events of a command are a function of its arguments only: *)
(* when a call has returned, after any earlier accepted or rejected calls, *)
(* the line events it drove are those of the encoder called on its own     *)
(* with the same arguments, and the frame handed to HunterWrite is the one *)
(* built from the base frame.                                              *)
C23_FreshFrame ==
  (pc = "ready" /\ inv >= 1) =>
    /\ LineEvents = EncoderAlone.out
    /\ written = EncoderAlone.written

C23_Witness ==
  /\ pc = "ready" /\ inv = 2
  /\ call.op = "HunterStart" /\ call.zone = 48 /\ call.time = 240
  /\ Len(written) = 1
  /\ Len(LineEvents) = 2 + 2 + 15 * 16 + 2 + 2

(* C25: HunterBitfield places the value least significant bit first: bit i *)
(* of val is stored at offset pos + i, offsets counted from the most       *)
(* significant bit of byte 0.                                              *)
C25_LsbFirst ==
  pc = "bitfield" =>
    \A i \in 0..(bf.len - 1) :
      BitAt(bf.result, bf.pos + i) = (bf.val \div 2^i) % 2

C25_Witness ==
  /\ pc = "bitfield"
  /\ bf.bits = <<90, 165>> /\ bf.pos = 6 /\ bf.len = 4 /\ bf.val = 10
  /\ bf.result = <<89, 101>>

(* C26: a zone command that the encoder rejects has no side effect on the  *)
(* pump: startZone with a zone or duration out of range leaves the pump    *)
(* output in the state it had before the call, the one initialize left it  *)
(* in.                                                                     *)
C26_RejectedLeavesPump ==
  (pc = "done" /\ call.op = "startZone" /\ ~Transmitted)
  => pumpPin = IF usePump THEN (IF PUMP_PIN_DEFAULT THEN "HIGH" ELSE "LOW") ELSE "undriven"

(* C27: initialize configures the bus pin as an output before a            *)
(* transmission drives it, with the pump in use and with the pump not in   *)
(* use.                                                                    *)
C27_BusPinIsOutput ==
  /\ pc # "new" => "HUNTER_PIN" \in outputs
  /\ hunterPin # "undriven" => "HUNTER_PIN" \in outputs


----------------------------------------------------------------------------
(* MQTT::reconnect, step by step. The client is the environment: connect   *)
(* succeeds or fails, and an established connection may be lost before    *)
(* connected() is asked the next time                                      *)

hunterVars ==
  <<usePump, oled, pc, call, out, written, report, fields, bf, inv, owner, frame, txAt,
    hunterPin, pumpPin, outputs>>

\* the controller as constructed, the pump not in use
HunterUnused ==
  /\ usePump = FALSE /\ oled = FALSE /\ pc = "new" /\ call = NoCall
  /\ out = <<>> /\ written = <<>> /\ report = <<>> /\ fields = <<>>
  /\ bf = NoBitfield /\ inv = 0 /\ owner = 0 /\ frame = <<>> /\ txAt = 0
  /\ hunterPin = "undriven" /\ pumpPin = "undriven" /\ outputs = {}

InitMqtt ==
  /\ HunterUnused
  /\ ee = NoAppData
  /\ \E a \in BOOLEAN, o \in BOOLEAN, l \in BOOLEAN :
       mq = [NoReconnect EXCEPT !.pc = "called", !.appData = a, !.oled = o, !.link = l]

\* LoopCntExceeded with one more attempt allowed
LoopCntExceededAt5(loopCnt) == loopCnt > 5

\* if (loopCnt++ > 4)
LoopCntExceeded(loopCnt) == loopCnt > 4

\* a display update, made when a display is attached
MqttOled(msg) == IF mq.oled THEN <<msg>> ELSE <<>>

\* entry: without appData the function returns false at once
ReconnectEnter ==
  /\ mq.pc = "called"
  /\ mq' = IF ~mq.appData
           THEN [mq EXCEPT !.pc = "returned", !.ret = FALSE]
           ELSE [mq EXCEPT !.pc = "loop", !.loopCnt = 0]
  /\ UNCHANGED <<hunterVars, ee>>

\* while (!mqttClient.connected()) { if (loopCnt++ > 4) return false; ...
ReconnectLoopHead ==
  /\ mq.pc = "loop"
  /\ \E connected \in (IF mq.link THEN BOOLEAN ELSE {FALSE}) :
       mq' = IF connected
             THEN [mq EXCEPT !.pc = "connected", !.link = TRUE]
             ELSE IF LoopCntExceeded(mq.loopCnt)
             THEN [mq EXCEPT !.pc = "returned", !.ret = FALSE, !.link = FALSE,
                             !.loopCnt = mq.loopCnt + 1]
             ELSE [mq EXCEPT !.pc = "attempt", !.link = FALSE,
                             !.loopCnt = mq.loopCnt + 1,
                             !.log = mq.log \o MqttOled("Connecting to MQTT ...")]
  /\ UNCHANGED <<hunterVars, ee>>

\* mqttClient.connect(...): subscribe on success, delay(5000) on failure
ReconnectAttempt ==
  /\ mq.pc = "attempt"
  /\ \E ok \in BOOLEAN :
       mq' = [mq EXCEPT !.pc = "loop", !.link = ok, !.attempts = mq.attempts + 1,
                        !.log = mq.log \o (IF ok THEN <<"subscribe">> \o MqttOled("updateMqttInfo")
                                                 ELSE <<"delay">>)]
  /\ UNCHANGED <<hunterVars, ee>>

\* after the loop: store to EEPROM, publish the WIFI and the MQTT settings
ReconnectConnected ==
  /\ mq.pc = "connected"
  /\ mq' = [mq EXCEPT !.pc = "returned", !.ret = TRUE,
                      !.log = mq.log \o MqttOled("MQTT connected")
                                    \o <<"storeEEProm", "publishWIFI", "publishMQTT">>]
  /\ UNCHANGED <<hunterVars, ee>>

NextMqtt ==
  \/ ReconnectEnter
  \/ ReconnectLoopHead
  \/ ReconnectAttempt
  \/ ReconnectConnected

\* the function's statements are executed one after another: delay and the
\* client's calls return
SpecMqtt == InitMqtt /\ [][NextMqtt]_vars /\ WF_vars(NextMqtt)

\* the last three effects of reconnect
LogTail == SubSeq(mq.log, Len(mq.log) - 2, Len(mq.log))

----------------------------------------------------------------------------
(* APP_DATA: the setters and storeEEProm. ee.settings is sData, ee.flash   *)
(* what the EEPROM holds, ee.commit the outcome of the last storeEEProm    *)

EEPROM_DATA_VALID == 170
EEPROM_DATA_TOSTORE == 85

\* after APP_DATA::initialize: the settings read from the EEPROM, or the
\* defaults marked to-store when the EEPROM holds none
InitEeprom ==
  /\ HunterUnused
  /\ mq = NoReconnect
  /\ \E s \in Settings :
       \/ ee = [NoAppData EXCEPT !.dataValid = EEPROM_DATA_VALID, !.settings = s, !.flash = s]
       \/ ee = [NoAppData EXCEPT !.dataValid = EEPROM_DATA_TOSTORE, !.settings = s]

\* a setter: the value is written to sData and the data marked to-store
SetSetting ==
  /\ \E v \in Settings :
       ee' = [ee EXCEPT !.settings = v, !.dataValid = EEPROM_DATA_TOSTORE, !.commit = "none"]
  /\ UNCHANGED <<hunterVars, mq>>

\* storeEEProm -> storeEEpromData: the mark is set to valid, then put and commit
StoreEEpromData ==
  /\ ee.stores < MaxStores
  /\ IF ee.dataValid = EEPROM_DATA_TOSTORE
     THEN \E ok \in BOOLEAN :
            ee' = [ee EXCEPT !.dataValid = EEPROM_DATA_VALID,
                             !.flash = IF ok THEN ee.settings ELSE ee.flash,
                             !.commit = IF ok THEN "ok" ELSE "failed",
                             !.stores = ee.stores + 1]
     ELSE ee' = [ee EXCEPT !.commit = "none", !.stores = ee.stores + 1]
  /\ UNCHANGED <<hunterVars, mq>>

NextEeprom ==
  \/ SetSetting
  \/ StoreEEpromData

SpecEeprom == InitEeprom /\ [][NextEeprom]_vars

(* C28: changed settings are not lost on a failed EEPROM write: when the   *)
(* commit of storeEEpromData has failed the data is still marked to-store, *)
(* and the data is marked valid only when the EEPROM holds the settings.   *)
C28_FailedWriteKeepsMark ==
  /\ ee.commit = "failed" => ee.dataValid = EEPROM_DATA_TOSTORE
  /\ ee.dataValid = EEPROM_DATA_VALID => ee.flash = ee.settings

====
